---- MODULE Spec2Model ----
(***************************************************************************)
(* British Square solver (bsquare.c), minimax build.                       *)
(*                                                                         *)
(* A uint64_t is modelled as the set of the positions of its 1 bits, a     *)
(* subset of 0..63, because the 56-bit boards and 64-bit slots and hashes  *)
(* do not fit the model checker's integers.  Shifts, masks and unsigned    *)
(* comparison are defined on that representation; the hexadecimal          *)
(* constants of the source are written in 16-bit groups, most significant  *)
(* first.                                                                  *)
(***************************************************************************)
EXTENDS Integers, FiniteSets, Sequences, TLC

VARIABLES b, m, pc, stack, ret, table, table_len, moves, n

vars == <<b, m, pc, stack, ret, table, table_len, moves, n>>

(***************************************************************************)
(* Bounds of the model.                                                    *)
(***************************************************************************)
\* Plies during which the modelled user types the lowest or the highest
\* legal cell; afterwards the lowest legal cell is typed.
FreePlies == 5
\* Passes (input 0) the modelled user may type while a legal cell exists.
MaxVolPass == 2
\* Highest 1-indexed turn number the interactive loop is followed to.
MaxTurn == 20
\* A solve is started only from positions with at most this many cells
\* still open to either player.
MaxOpen == 5
\* Number of slots of the transposition table (1L<<24 in the source).
TableSize == 32
\* Most occupied bits of a board drawn as input of the canonicalizer.
MaxPieces == 2

\* Scores of the slots drawn as inputs of combine: the extremes -25 and 25 and
\* the scores of magnitude at most this.
MaxFoldScore == 2
\* Highest count in a field of a tally slot drawn as input of combine.
MaxTally == 1

(***************************************************************************)
(* 64-bit words as sets of bit positions.                                  *)
(***************************************************************************)
\* UNION {e(x) : x \in {v}}, for a set e, and CHOOSE r \in {e(x) : x \in {v}} :
\* TRUE stand for e(v) with v evaluated once, as an assignment to a local does.
Max(S) == CHOOSE r \in {(CHOOSE x \in T : \A y \in T : y <= x) : T \in {S}} : TRUE
Min(S) == CHOOSE r \in {(CHOOSE x \in T : \A y \in T : x <= y) : T \in {S}} : TRUE

\* The bits of a non-negative integer below 2^31; those of the small values
\* (turn numbers, biased scores) are tabulated.
BitsOfInt(k) == {i \in 0..30 : (k \div (2^i)) % 2 = 1}
BitsOfSmall == [k \in 0..127 |-> BitsOfInt(k)]
BitsOf(k) ==
    UNION {(IF x \in DOMAIN BitsOfSmall THEN BitsOfSmall[x] ELSE BitsOfInt(x)) :
             x \in {k}}

\* The integer value of a word whose bits all lie below position 31.
RECURSIVE Val(_)
Val(w) ==
    CHOOSE r \in {(IF x = {} THEN 0 ELSE LET i == Max(x) IN 2^i + Val(x \ {i})) :
                    x \in {w}} : TRUE

\* x >> k, x << k (truncated to 64 bits), x & y, x | y, x ^ y, x < y.
Shr(w, k) == UNION {{i - d : i \in {j \in w : j >= d}} : d \in {k}}
Shl(w, k) == UNION {{i + d : i \in {j \in w : j + d <= 63}} : d \in {k}}
And(v, w) == v \cap w
Or(v, w) == v \cup w
Xor(v, w) == (v \ w) \cup (w \ v)
Lt(v, w) == v # w /\ Max(Xor(v, w)) \in w

\* A 64-bit constant from its four 16-bit groups, most significant first.
Hex(h3, h2, h1, h0) ==
    Or(Or(Shl(BitsOf(h3), 48), Shl(BitsOf(h2), 32)),
       Or(Shl(BitsOf(h1), 16), BitsOf(h0)))

\* The ascending sequence of the elements of a finite set of integers.
RECURSIVE Asc(_)
Asc(S) == IF S = {} THEN << >> ELSE LET x == Min(S) IN <<x>> \o Asc(S \ {x})

(***************************************************************************)
(* State codec.                                                            *)
(***************************************************************************)
\* #define INIT (1ULL<<50)
INIT == {50}
\* 0x3ffffffffffff: the two occupancy planes.
PLANES == Hex(\h0003, \hffff, \hffff, \hffff)
\* 0x1ffffff: one occupancy plane.
PLANE == Hex(\h0000, \h0000, \h01ff, \hffff)

Cell == 0..24

\* The turn field b >> 50 (1-indexed).
Turn1(w) == Val(Shr(w, 50))
\* who = (turn - 1) % 2 in unsigned arithmetic: turn 0 wraps to an odd value.
Who(w) == (Turn1(w) + 1) % 2

place(bb, i) ==
    LET state == And(bb, PLANES)
        bit == {Who(bb) * 25 + i}
    IN Or(Or(Shl(BitsOf(Turn1(bb) + 1), 50), state), bit)

\* A pass that leaves the turn number as it is.
passStay(bb) == And(bb, Or(PLANES, Shl(BitsOf(63), 50)))

pass(bb) ==
    LET state == And(bb, PLANES)
    IN Or(Shl(BitsOf(Turn1(bb) + 1), 50), state)

blocks == <<
    BitsOf(\h0000023), BitsOf(\h0000047), BitsOf(\h000008e), BitsOf(\h000011c), BitsOf(\h0000218),
    BitsOf(\h0000461), BitsOf(\h00008e2), BitsOf(\h00011c4), BitsOf(\h0002388), BitsOf(\h0004310),
    BitsOf(\h0008c20), BitsOf(\h0011c40), BitsOf(\h0023880), BitsOf(\h0047100), BitsOf(\h0086200),
    BitsOf(\h0118400), BitsOf(\h0238800), BitsOf(\h0471000), BitsOf(\h08e2000), BitsOf(\h10c4000),
    BitsOf(\h0308000), BitsOf(\h0710000), BitsOf(\h0e20000), BitsOf(\h1c40000), BitsOf(\h1880000) >>

\* A mask that records the placed piece and blocks nothing around it.
maskOwn(mm, i) ==
    LET who == Who(mm)
        state == And(mm, PLANES)
    IN Or(Or(Shl(BitsOf(Turn1(mm) + 1), 50), state), {who * 25 + i})

mask(mm, i) ==
    LET who == Who(mm)
        state == And(mm, PLANES)
    IN Or(Or(Shl(BitsOf(Turn1(mm) + 1), 50), state),
          Or(Shl(blocks[i + 1], (1 - who) * 25), {who * 25 + i}))

\* The 0-indexed turn number.
turn(bb) == Turn1(bb) - 1

\* A replay that never passes: it stops at the first exhausted move list.
DeriveLoopNoPass(bb, mvs, mm, i) ==
    LET RECURSIVE Go(_, _)
        Go(x, j) ==
            IF turn(x) < turn(bb) /\ (j \div 2) < Len(mvs[(j % 2) + 1])
            THEN Go(mask(x, mvs[(j % 2) + 1][(j \div 2) + 1]), j + 1)
            ELSE x
    IN Go(mm, i)

\* derive: the loop of lines 84-86, from m with loop counter i.
RECURSIVE DeriveLoop(_, _, _, _)
DeriveLoop(bb, mvs, mm, i) ==
    IF turn(mm) < turn(bb)
    THEN LET p == i % 2
             k == i \div 2
         IN DeriveLoop(bb, mvs,
                       IF k < Len(mvs[p + 1]) THEN mask(mm, mvs[p + 1][k + 1])
                                              ELSE pass(mm),
                       i + 1)
    ELSE mm

derive(bb) ==
    LET mvs == << Asc({i \in Cell : i \in bb}),
                  Asc({i \in Cell : (i + 25) \in bb}) >>
    IN DeriveLoop(bb, mvs, INIT, 0)

(***************************************************************************)
(* Symmetry canonicalizer.                                                 *)
(***************************************************************************)
\* The masks of lines 94-102, in the order of the source, and the right
\* (positive) or left (negative) shift each is applied after.
transposeMasks == <<
    Hex(\h0000, \h0000, \h2000, \h0010),
    Hex(\h0000, \h0004, \h1000, \h0208),
    Hex(\h0000, \h0082, \h0800, \h4104),
    Hex(\h0000, \h1041, \h0408, \h2082),
    Hex(\h00fe, \h0820, \h8304, \h1041),
    Hex(\h0001, \h0410, \h4082, \h0820),
    Hex(\h0000, \h8208, \h0041, \h0400),
    Hex(\h0000, \h4100, \h0020, \h8000),
    Hex(\h0000, \h2000, \h0010, \h0000) >>

transpose(bb) ==
    UNION {(And(Shr(x, 16), transposeMasks[1]) \cup
            And(Shr(x, 12), transposeMasks[2]) \cup
            And(Shr(x,  8), transposeMasks[3]) \cup
            And(Shr(x,  4), transposeMasks[4]) \cup
            And(Shr(x,  0), transposeMasks[5]) \cup
            And(Shl(x,  4), transposeMasks[6]) \cup
            And(Shl(x,  8), transposeMasks[7]) \cup
            And(Shl(x, 12), transposeMasks[8]) \cup
            And(Shl(x, 16), transposeMasks[9])) : x \in {bb}}

\* The masks of lines 109-113, in the order of the source.
flipvMasks == <<
    Hex(\h0000, \h0000, \h3e00, \h001f),
    Hex(\h0000, \h0007, \hc000, \h03e0),
    Hex(\h00fc, \h00f8, \h0000, \h7c00),
    Hex(\h0000, \h1f00, \h000f, \h8000),
    Hex(\h0003, \he000, \h01f0, \h0000) >>

\* A vertical flip whose unshifted mask keeps the middle row of the first
\* plane only (0xfc000000007c00).
flipvNarrow(bb) ==
    UNION {(And(Shr(x, 20), flipvMasks[1]) \cup
            And(Shr(x, 10), flipvMasks[2]) \cup
            And(Shr(x,  0), Hex(\h00fc, \h0000, \h0000, \h7c00)) \cup
            And(Shl(x, 10), flipvMasks[4]) \cup
            And(Shl(x, 20), flipvMasks[5])) : x \in {bb}}

flipv(bb) ==
    UNION {(And(Shr(x, 20), flipvMasks[1]) \cup
            And(Shr(x, 10), flipvMasks[2]) \cup
            And(Shr(x,  0), flipvMasks[3]) \cup
            And(Shl(x, 10), flipvMasks[4]) \cup
            And(Shl(x, 20), flipvMasks[5])) : x \in {bb}}

\* c = c < b ? c : b
Least(c, bb) == UNION {(IF Lt(x, y) THEN x ELSE y) : x \in {c}, y \in {bb}}

\* A canonicalizer that stops after three of the seven steps.
canonicalizeShort(bb) ==
    LET b1 == transpose(bb)
        c1 == Least(bb, b1)
        b2 == flipv(b1)
        c2 == Least(c1, b2)
        b3 == transpose(b2)
        c3 == Least(c2, b3)
    IN c3

canonicalize(bb) ==
    LET b1 == transpose(bb)
        c1 == Least(bb, b1)
        b2 == flipv(b1)
        c2 == Least(c1, b2)
        b3 == transpose(b2)
        c3 == Least(c2, b3)
        b4 == flipv(b3)
        c4 == Least(c3, b4)
        b5 == transpose(b4)
        c5 == Least(c4, b5)
        b6 == flipv(b5)
        c6 == Least(c5, b6)
        b7 == transpose(b6)
        c7 == Least(c6, b7)
    IN c7

(***************************************************************************)
(* Legality and termination rules.                                         *)
(***************************************************************************)
\* A legality test without the rule of the first ply.
validNoOpening(mm, i) == (Who(mm) * 25 + i) \notin mm

valid(mm, i) ==
    IF Turn1(mm) = 1 THEN i # 12 ELSE (Who(mm) * 25 + i) \notin mm

\* A test for no moves that holds as soon as either player is out of cells.
nomovesEither(bb, mm) ==
    \/ And(Or(Shr(bb, 0), Shr(mm, 0)), PLANE) = PLANE
    \/ And(Or(Shr(bb, 25), Shr(mm, 25)), PLANE) = PLANE

\* A test for no moves that looks at the pieces and not at the mask.
nomovesBoard(bb, mm) == And(Shr(bb, Who(bb) * 25), PLANE) = PLANE

nomoves(bb, mm) ==
    LET who == Who(bb)
    IN And(Or(Shr(bb, who * 25), Shr(mm, who * 25)), PLANE) = PLANE

\* A completion test that looks at the second player's plane only.
iscompleteSecond(bb, mm) ==
    And(Or(Shr(bb, 25), Shr(mm, 25)), PLANE) = PLANE

iscomplete(bb, mm) ==
    /\ And(Or(Shr(bb, 25), Shr(mm, 25)), PLANE) = PLANE
    /\ And(Or(Shr(bb, 0), Shr(mm, 0)), PLANE) = PLANE

(***************************************************************************)
(* Evaluation strategy: the minimax slot.  The score, biased by 25, sits   *)
(* in the 6 bits above the 56-bit board.                                   *)
(***************************************************************************)
\* 0xffffffffffffff and 0x3f00000000000000.
BOARD == Hex(\h00ff, \hffff, \hffff, \hffff)
SCORE == Hex(\h3f00, \h0000, \h0000, \h0000)

\* The bit count of a word.
POPCOUNT(w) == Cardinality(w)

init(bb) ==
    LET score_ == IF turn(bb) % 2 # 0 THEN 25 ELSE -25
    IN Or(Shl(BitsOf(score_ + 25), 56), bb)

getboard(s) == And(s, BOARD)

\* A relabelling that keeps the board the slot came with.
setboardKeep(s, bb) == s

setboard(s, bb) == Or(And(s, SCORE), bb)

getscore(s) == Val(Shr(s, 56)) - 25

score(bb) ==
    LET p0 == POPCOUNT(And(bb, PLANE))
        p1 == POPCOUNT(And(Shr(bb, 25), PLANE))
        score_ == p0 - p1
    IN Or(Shl(BitsOf(score_ + 25), 56), bb)

\* A combine with the two players' choices exchanged.
combineSwapped(s0, s1) ==
    LET v0 == getscore(s0)
        v1 == getscore(s1)
    IN IF turn(getboard(s0)) % 2 # 0
       THEN (IF v0 > v1 THEN s0 ELSE s1)
       ELSE (IF v0 < v1 THEN s0 ELSE s1)

combine(s0, s1) ==
    LET v0 == getscore(s0)
        v1 == getscore(s1)
    IN IF turn(getboard(s0)) % 2 # 0
       THEN (IF v0 < v1 THEN s0 ELSE s1)
       ELSE (IF v0 > v1 THEN s0 ELSE s1)

\* A compare that orders the slots for the first player whoever moves.
compareFirst(s0, s1) == getscore(s1) - getscore(s0)

compare(s0, s1) ==
    LET v0 == getscore(s0)
        v1 == getscore(s1)
    IN IF turn(getboard(s0)) % 2 # 0 THEN v0 - v1 ELSE v1 - v0

(***************************************************************************)
(* Evaluation strategy: the tally slot (build with TALLY defined), a        *)
(* struct of the board and three counts.                                   *)
(***************************************************************************)
init_tally(bb) == [board |-> bb, p1_wins |-> 0, p2_wins |-> 0, ties |-> 0]

combine_tally(s0, s1) ==
    [s0 EXCEPT !.p1_wins = s0.p1_wins + s1.p1_wins,
               !.p2_wins = s0.p2_wins + s1.p2_wins,
               !.ties    = s0.ties + s1.ties]

(***************************************************************************)
(* Transposition table.  The table is a function from slot index to slot;  *)
(* the zero word {} is an empty slot.                                      *)
(***************************************************************************)
\* 64-bit arithmetic in five 14-bit limbs, least significant first.

Limb(w, j) == Val(Shr(And(w, (14 * j)..(14 * j + 14 - 1)), 14 * j))
Limbs(w) ==
    CHOOSE r \in {<<Limb(x, 0), Limb(x, 1), Limb(x, 2), Limb(x, 3), Limb(x, 4)>> :
                    x \in {w}} : TRUE
Unlimbs(l) ==
    And(UNION {Shl(BitsOf(l[j + 1]), 14 * j) : j \in 0..4}, 0..63)

\* The sum of f[i] * g[k - i] for i in 0..k.
RECURSIVE Column(_, _, _, _)
Column(f, g, k, i) ==
    IF i > k THEN 0 ELSE f[i + 1] * g[k - i + 1] + Column(f, g, k, i + 1)

\* x * y modulo 2^64.
Mul64(x, y) ==
    UNION {(LET base == 2^14
                r0 == Column(f, g, 0, 0)
                r1 == Column(f, g, 1, 0) + (r0 \div base)
                r2 == Column(f, g, 2, 0) + (r1 \div base)
                r3 == Column(f, g, 3, 0) + (r2 \div base)
                r4 == Column(f, g, 4, 0) + (r3 \div base)
            IN Unlimbs(<<r0 % base, r1 % base, r2 % base, r3 % base,
                         r4 % base>>)) : f \in {Limbs(x)}, g \in {Limbs(y)}}

\* x % k for an integer k below 2^17.
Mod64(x, k) ==
    CHOOSE r \in {(LET base == 2^14
                       m4 == l[5] % k
                       m3 == (m4 * base + l[4]) % k
                       m2 == (m3 * base + l[3]) % k
                       m1 == (m2 * base + l[2]) % k
                       m0 == (m1 * base + l[1]) % k
                   IN m0) : l \in {Limbs(x)}} : TRUE

\* 0xcca1cee435c5048f
HashMul == Hex(\hcca1, \hcee4, \h35c5, \h048f)

\* The hash of lines 374-376.
Hash(bb) == UNION {Xor(h, Shr(h, 40)) : h \in {Mul64(bb, HashMul)}}

\* A lookup that probes every slot without finding b or an empty slot never
\* returns.
NoSlot == 0 - 1

\* A probe that stops at empty slots only and never on the key.
RECURSIVE ProbeNoKey(_, _, _, _)
ProbeNoKey(tbl, bb, i, left) ==
    IF getboard(tbl[i]) = {} THEN i
    ELSE IF left = 1 THEN NoSlot
    ELSE ProbeNoKey(tbl, bb, (i + 1) % TableSize, left - 1)

\* The probe loop of lines 377-382 from index i, with `left` slots not yet
\* visited.
RECURSIVE Probe(_, _, _, _)
Probe(tbl, bb, i, left) ==
    LET k == getboard(tbl[i])
    IN IF k = {} \/ k = bb THEN i
       ELSE IF left = 1 THEN NoSlot
       ELSE Probe(tbl, bb, (i + 1) % TableSize, left - 1)

lookup(tbl, bb) ==
    CHOOSE r \in {Probe(tbl, bb, i, TableSize) :
                    i \in {Mod64(Hash(bb), TableSize)}} : TRUE

(***************************************************************************)
(* The call stack.  A frame holds the arguments and locals of one call of  *)
(* eval or suggest and the place it has reached; the last frame is the     *)
(* running call.  A frame waiting on a call it made is on top again once   *)
(* that call has returned, with the returned slot in ret.                  *)
(***************************************************************************)
Top == stack[Len(stack)]
SetTop(f) == [stack EXCEPT ![Len(stack)] = f]
Pop == SubSeq(stack, 1, Len(stack) - 1)

\* A call eval(bb, mm): b0 and slot are set by lines 390-391.
EvalFrame(bb, mm) ==
    [fn |-> "eval", b |-> bb, m |-> mm, b0 |-> {}, slot |-> NoSlot,
     i |-> 0, s |-> {}, pc |-> "call"]

\* A call suggest(bb, mm, moves) after lines 424-425: s is the local best.
SuggestFrame(bb, mm) ==
    [fn |-> "suggest", b |-> bb, m |-> mm, b0 |-> {}, slot |-> NoSlot,
     i |-> 0, s |-> init(bb), pc |-> "loop"]

\* The legal cells from index i on, and the next cell a for loop standing at
\* index i stops at.
LegalFrom(mm, i) == {j \in Cell : j >= i /\ valid(mm, j)}
Legal(mm) == LegalFrom(mm, 0)

\* A capacity check that lets the table fill completely.
OverflowLate(len) == ~(len <= TableSize)

\* assert(table_len < sizeof(table)/sizeof(*table)) fails.
Overflow(len) == ~(len < TableSize)

\* The cells still open to at least one player.
OpenCells(mm) == {i \in Cell : i \notin mm \/ (i + 25) \notin mm}

\* The passes taken so far: plies played minus pieces placed.
Passes(bb) == turn(bb) - POPCOUNT(And(bb, PLANES))

\* The cells the modelled user types at the prompt.
Typed(bb, mm) ==
    LET L == Legal(mm)
    IN IF L = {} THEN {}
       ELSE IF turn(bb) < FreePlies THEN {Min(L), Max(L)}
       ELSE {Min(L)}

(***************************************************************************)
(* Initial state: the zeroed static table, main at its first prompt with   *)
(* the empty board.                                                        *)
(***************************************************************************)
Unset == 0 - 1

Init ==
    /\ b = INIT
    /\ m = INIT
    /\ pc = "input"
    /\ stack = << >>
    /\ ret = {}
    /\ table = [k \in 0..(TableSize - 1) |-> {}]
    /\ table_len = 0
    /\ moves = [k \in Cell |-> Unset]
    /\ n = 0

(***************************************************************************)
(* main: the input handling of lines 630-651.                              *)
(***************************************************************************)
\* Input i+1 with valid(m, i).
InputPlace ==
    /\ pc = "input"
    /\ Turn1(b) < MaxTurn
    /\ \E i \in Typed(b, m) :
        /\ valid(m, i)
        /\ b' = place(b, i)
        /\ m' = mask(m, i)
    /\ UNCHANGED <<pc, stack, ret, table, table_len, moves, n>>

\* Input 0: accepted whether or not the mover has a legal cell.
InputPass ==
    /\ pc = "input"
    /\ Turn1(b) < MaxTurn
    /\ nomoves(b, m) \/ Passes(b) < MaxVolPass
    /\ b' = pass(b)
    /\ m' = pass(m)
    /\ UNCHANGED <<pc, stack, ret, table, table_len, moves, n>>

\* Input 0 under the rules of the game: only when the mover has no legal
\* cell.
ForcedPass ==
    /\ pc = "input"
    /\ Turn1(b) < MaxTurn
    /\ nomoves(b, m)
    /\ b' = pass(b)
    /\ m' = pass(m)
    /\ UNCHANGED <<pc, stack, ret, table, table_len, moves, n>>

\* Input -1.
InputRestart ==
    /\ pc = "input"
    /\ b' = INIT
    /\ m' = INIT
    /\ UNCHANGED <<pc, stack, ret, table, table_len, moves, n>>

\* display(eval(b, m)): the solve, started once the position is within
\* MaxOpen.
MainEval ==
    /\ pc = "input"
    /\ Cardinality(OpenCells(m)) <= MaxOpen
    /\ pc' = "eval"
    /\ stack' = <<EvalFrame(b, m)>>
    /\ UNCHANGED <<b, m, ret, table, table_len, moves, n>>

(***************************************************************************)
(* eval, lines 387-419.                                                    *)
(***************************************************************************)
InEval(p) ==
    /\ pc \in {"eval", "suggest"}
    /\ stack # << >>
    /\ Top.fn = "eval"
    /\ Top.pc = p

\* Where main continues when its own call of eval returns.
AfterReturn == IF Len(stack) = 1 /\ pc = "eval" THEN "display" ELSE pc

\* Lines 392, 396-397: the slot is occupied; return it.
EvalHit ==
    /\ InEval("call")
    /\ \E b0 \in {canonicalize(Top.b)} : \E slot \in {lookup(table, b0)} :
          /\ slot # NoSlot
          /\ getboard(table[slot]) # {}
          /\ ret' = table[slot]
    /\ stack' = Pop
    /\ pc' = AfterReturn
    /\ UNCHANGED <<b, m, table, table_len, moves, n>>

\* Lines 392-395: the slot is empty; count it, check the capacity, write the
\* placeholder.
EvalInsert ==
    /\ InEval("call")
    /\ \E b0 \in {canonicalize(Top.b)} : \E slot \in {lookup(table, b0)} :
          /\ slot # NoSlot
          /\ getboard(table[slot]) = {}
          /\ table_len' = table_len + 1
          /\ IF Overflow(table_len + 1)
             THEN /\ pc' = "abort"
                  /\ UNCHANGED <<table, stack>>
             ELSE /\ table' = [table EXCEPT ![slot] = init(b0)]
                  /\ stack' = SetTop([Top EXCEPT !.b0 = b0, !.slot = slot,
                                                 !.pc = "body"])
                  /\ pc' = pc
    /\ UNCHANGED <<b, m, ret, moves, n>>

\* Lines 400-402.
EvalScore ==
    /\ InEval("body")
    /\ iscomplete(Top.b, Top.m)
    /\ table' = [table EXCEPT ![Top.slot] = score(Top.b0)]
    /\ ret' = score(Top.b0)
    /\ stack' = Pop
    /\ pc' = AfterReturn
    /\ UNCHANGED <<b, m, table_len, moves, n>>

\* Lines 404-405: the call eval(pass(b), pass(m)).
EvalPass ==
    /\ InEval("body")
    /\ ~iscomplete(Top.b, Top.m)
    /\ nomoves(Top.b, Top.m)
    /\ stack' = Append(SetTop([Top EXCEPT !.pc = "passret"]),
                       EvalFrame(pass(Top.b), pass(Top.m)))
    /\ UNCHANGED <<b, m, pc, ret, table, table_len, moves, n>>

\* Lines 405-407: the call has returned.
EvalPassRet ==
    /\ InEval("passret")
    /\ LET s == setboard(ret, Top.b0)
       IN /\ table' = [table EXCEPT ![Top.slot] = s]
          /\ ret' = s
    /\ stack' = Pop
    /\ pc' = AfterReturn
    /\ UNCHANGED <<b, m, table_len, moves, n>>

\* Lines 410-411: enter the loop over the cells.
EvalLoop ==
    /\ InEval("body")
    /\ ~iscomplete(Top.b, Top.m)
    /\ ~nomoves(Top.b, Top.m)
    /\ stack' = SetTop([Top EXCEPT !.s = init(Top.b0), !.i = 0, !.pc = "loop"])
    /\ UNCHANGED <<b, m, pc, ret, table, table_len, moves, n>>

\* Lines 411-413: advance to the next valid cell and call eval on it.
EvalCall ==
    /\ InEval("loop")
    /\ LegalFrom(Top.m, Top.i) # {}
    /\ \E i \in {Min(LegalFrom(Top.m, Top.i))} :
          stack' = Append(SetTop([Top EXCEPT !.i = i, !.pc = "callret"]),
                          EvalFrame(place(Top.b, i), mask(Top.m, i)))
    /\ UNCHANGED <<b, m, pc, ret, table, table_len, moves, n>>

\* Lines 413-415: the call has returned; fold it in.
EvalRet ==
    /\ InEval("callret")
    /\ LET tmp == setboard(ret, Top.b0)
       IN stack' = SetTop([Top EXCEPT !.s = combine(Top.s, tmp),
                                      !.i = Top.i + 1, !.pc = "loop"])
    /\ UNCHANGED <<b, m, pc, ret, table, table_len, moves, n>>

\* Lines 411, 418: no valid cell is left; store and return the fold.
EvalEnd ==
    /\ InEval("loop")
    /\ LegalFrom(Top.m, Top.i) = {}
    /\ table' = [table EXCEPT ![Top.slot] = Top.s]
    /\ ret' = Top.s
    /\ stack' = Pop
    /\ pc' = AfterReturn
    /\ UNCHANGED <<b, m, table_len, moves, n>>

(***************************************************************************)
(* main, lines 614-628, and suggest, lines 421-441.                        *)
(***************************************************************************)
\* Lines 614-615: game over; the session ends at the prompt.
MainGameOver ==
    /\ pc = "display"
    /\ iscomplete(b, m)
    /\ pc' = "done"
    /\ UNCHANGED <<b, m, stack, ret, table, table_len, moves, n>>

\* Lines 617-618: the call suggest(b, m, moves).
MainSuggest ==
    /\ pc = "display"
    /\ ~iscomplete(b, m)
    /\ pc' = "suggest"
    /\ stack' = <<SuggestFrame(b, m)>>
    /\ n' = 0
    /\ moves' = [k \in Cell |-> Unset]
    /\ UNCHANGED <<b, m, ret, table, table_len>>

InSuggest(p) ==
    /\ pc = "suggest"
    /\ stack # << >>
    /\ Top.fn = "suggest"
    /\ Top.pc = p

\* Lines 426-428: advance to the next valid cell and call eval on it.
SuggestCall ==
    /\ InSuggest("loop")
    /\ LegalFrom(Top.m, Top.i) # {}
    /\ \E i \in {Min(LegalFrom(Top.m, Top.i))} :
          stack' = Append(SetTop([Top EXCEPT !.i = i, !.pc = "callret"]),
                          EvalFrame(place(Top.b, i), mask(Top.m, i)))
    /\ UNCHANGED <<b, m, pc, ret, table, table_len, moves, n>>

\* Lines 428-437: the call has returned; rank it against best.
SuggestRet ==
    /\ InSuggest("callret")
    /\ LET s == setboard(ret, Top.b)
           c == compare(Top.s, s)
       IN IF c > 0
          THEN /\ stack' = SetTop([Top EXCEPT !.s = s, !.i = Top.i + 1,
                                              !.pc = "loop"])
               /\ moves' = [moves EXCEPT ![0] = Top.i]
               /\ n' = 1
          ELSE IF c = 0
          THEN /\ stack' = SetTop([Top EXCEPT !.i = Top.i + 1, !.pc = "loop"])
               /\ moves' = [moves EXCEPT ![n] = Top.i]
               /\ n' = n + 1
          ELSE /\ stack' = SetTop([Top EXCEPT !.i = Top.i + 1, !.pc = "loop"])
               /\ UNCHANGED <<moves, n>>
    /\ UNCHANGED <<b, m, pc, ret, table, table_len>>

\* Lines 426, 440: return n; the session ends at the prompt.
SuggestEnd ==
    /\ InSuggest("loop")
    /\ LegalFrom(Top.m, Top.i) = {}
    /\ stack' = Pop
    /\ pc' = "done"
    /\ UNCHANGED <<b, m, ret, table, table_len, moves, n>>

\* The solver driven by legal play.
Next ==
    \/ InputPlace
    \/ ForcedPass
    \/ InputRestart
    \/ MainEval
    \/ EvalHit
    \/ EvalInsert
    \/ EvalScore
    \/ EvalPass
    \/ EvalPassRet
    \/ EvalLoop
    \/ EvalCall
    \/ EvalRet
    \/ EvalEnd
    \/ MainGameOver
    \/ MainSuggest
    \/ SuggestCall
    \/ SuggestRet
    \/ SuggestEnd

Spec == Init /\ [][Next]_vars

\* The solver runs to completion: it is sequential code.
FairSpec == Spec /\ WF_vars(Next)

\* The interactive loop alone, with passes typed at will.
NextPlay ==
    \/ InputPlace
    \/ InputPass
    \/ InputRestart

SpecPlay == Init /\ [][NextPlay]_vars

(***************************************************************************)
(* The canonicalizer as a function of an arbitrary 56-bit word: b is drawn *)
(* from the words with at most MaxPieces bits set, turn field included,    *)
(* and moved through its orbit by the two generators.                      *)
(***************************************************************************)
RECURSIVE WordsUpTo(_, _)
WordsUpTo(S, k) ==
    IF k = 0 THEN {{}}
    ELSE LET P == WordsUpTo(S, k - 1) IN P \cup {w \cup {x} : w \in P, x \in S}

InitCanon ==
    /\ b \in WordsUpTo(BOARD, MaxPieces)
    /\ m = INIT
    /\ pc = "canon"
    /\ stack = << >>
    /\ ret = {}
    /\ table = [k \in 0..(TableSize - 1) |-> {}]
    /\ table_len = 0
    /\ moves = [k \in Cell |-> Unset]
    /\ n = 0

ApplyTranspose ==
    /\ pc = "canon"
    /\ b' = transpose(b)
    /\ UNCHANGED <<m, pc, stack, ret, table, table_len, moves, n>>

ApplyFlipv ==
    /\ pc = "canon"
    /\ b' = flipv(b)
    /\ UNCHANGED <<m, pc, stack, ret, table, table_len, moves, n>>

NextCanon ==
    \/ ApplyTranspose
    \/ ApplyFlipv

SpecCanon == InitCanon /\ [][NextCanon]_vars

(***************************************************************************)
(* combine as a function of slots that carry the same board: three slots   *)
(* are drawn and folded into the accumulator s of eval's loop, which       *)
(* starts as init(b0), in every order.  moves keeps the slots drawn, stack *)
(* those not yet folded, ret the accumulator; pc names the build.          *)
(***************************************************************************)
\* (uint64_t)(score + 25)<<56 | b
Slot(bb, v) == Or(Shl(BitsOf(v + 25), 56), bb)

FoldBoards == {INIT, pass(INIT), place(INIT, 0)}
FoldScores == (0 - MaxFoldScore)..MaxFoldScore \cup {0 - 25, 25}
FoldSlots(bb) == {Slot(bb, v) : v \in FoldScores}
TallySlots(bb) ==
    {[board |-> bb, p1_wins |-> x, p2_wins |-> y, ties |-> z] :
        x \in 0..MaxTally, y \in 0..MaxTally, z \in 0..MaxTally}

Without(q, k) == SubSeq(q, 1, k - 1) \o SubSeq(q, k + 1, Len(q))

InitFold ==
    /\ b \in FoldBoards
    /\ pc \in {"minimax", "tally"}
    /\ moves \in IF pc = "minimax"
                 THEN FoldSlots(b) \X FoldSlots(b) \X FoldSlots(b)
                 ELSE TallySlots(b) \X TallySlots(b) \X TallySlots(b)
    /\ stack = moves
    /\ ret = IF pc = "minimax" THEN init(b) ELSE init_tally(b)
    /\ m = INIT
    /\ table = [k \in 0..(TableSize - 1) |-> {}]
    /\ table_len = 0
    /\ n = 0

\* s = combine(s, tmp), minimax build.
FoldMinimax ==
    /\ pc = "minimax"
    /\ \E k \in 1..Len(stack) :
        /\ ret' = combine(ret, stack[k])
        /\ stack' = Without(stack, k)
    /\ UNCHANGED <<b, m, pc, table, table_len, moves, n>>

\* s = combine(s, tmp), tally build.
FoldTally ==
    /\ pc = "tally"
    /\ \E k \in 1..Len(stack) :
        /\ ret' = combine_tally(ret, stack[k])
        /\ stack' = Without(stack, k)
    /\ UNCHANGED <<b, m, pc, table, table_len, moves, n>>

NextFold ==
    \/ FoldMinimax
    \/ FoldTally

SpecFold == InitFold /\ [][NextFold]_vars

(***************************************************************************)
(* Properties.                                                             *)
(***************************************************************************)
\* The positions the program is working on: main's and that of the running
\* call.  Every call on the stack was the running call when it was made.
Positions ==
    {<<b, m>>} \cup (IF stack = << >> THEN {} ELSE {<<Top.b, Top.m>>})

\* The eight images of a board in the order canonicalize visits them.
Orbit(bb) ==
    LET b1 == transpose(bb)
        b2 == flipv(b1)
        b3 == transpose(b2)
        b4 == flipv(b3)
        b5 == transpose(b4)
        b6 == flipv(b5)
        b7 == transpose(b6)
    IN <<bb, b1, b2, b3, b4, b5, b6, b7>>

\* C2: canonicalizing a canonical board changes nothing, for every 56-bit
\* word drawn as input.
CanonIdempotent == canonicalize(canonicalize(b)) = canonicalize(b)

\* C2 witness: a board with pieces and a turn field that is not its own
\* canonical form.
CanonMoves ==
    /\ And(b, PLANES) # {}
    /\ Shr(b, 50) # {}
    /\ canonicalize(b) # b

\* C3: every one of the eight images of a board has the canonical form of
\* the board, and an eighth step (a flip) closes the cycle.
CanonSymmetric ==
    /\ \A k \in 1..8 : canonicalize(Orbit(b)[k]) = canonicalize(b)
    /\ flipv(Orbit(b)[8]) = b

\* C3 witness: a board whose eight images are all different.
OrbitOfEight == Cardinality({Orbit(b)[k] : k \in 1..8}) = 8

\* C4: in a complete position the mover has no valid cell.
CompleteNoValid ==
    \A p \in Positions : iscomplete(p[1], p[2]) => Legal(p[2]) = {}

\* C4 witness: play has reached a complete position.
CompleteReached == pc = "input" /\ iscomplete(b, m)

\* C9: under legal play the mask rebuilt from the board is the mask carried
\* with it, for main's position and for every call on the stack.
DeriveExact == \A p \in Positions : derive(p[1]) = p[2]

\* C9 witness: a position with pieces of both players reached through a
\* forced pass.
ForcedPassTaken ==
    /\ pc = "input"
    /\ Passes(b) > 0
    /\ And(b, PLANE) # {}
    /\ And(Shr(b, 25), PLANE) # {}

\* A step of the loop that passes while the mover has a legal cell.
VoluntaryPass ==
    /\ ~nomoves(b, m)
    /\ Legal(m) # {}
    /\ b' = pass(b)
    /\ m' = pass(m)

HasReturned ==
    \/ pc = "display"
    \/ /\ pc \in {"eval", "suggest"}
       /\ stack # << >>
       /\ Top.pc \in {"passret", "callret"}

ReturnedB ==
    IF pc = "display" THEN b
    ELSE IF Top.pc = "passret" THEN pass(Top.b)
    ELSE place(Top.b, Top.i)

ReturnedM ==
    IF pc = "display" THEN m
    ELSE IF Top.pc = "passret" THEN pass(Top.m)
    ELSE mask(Top.m, Top.i)

\* The score eval returns for a board whose entry is in the table.
StoredScore(bb) == getscore(table[lookup(table, canonicalize(bb))])

\* The scores of the legal children of a position, and the best of them for
\* the mover: the maximum for the first player, the minimum for the second.
ChildScores(bb, mm) == {StoredScore(place(bb, i)) : i \in Legal(mm)}
BestChild(bb, mm) ==
    IF Who(bb) = 0 THEN Max(ChildScores(bb, mm)) ELSE Min(ChildScores(bb, mm))

\* C1: the slot eval returns for a position that is not complete carries the
\* canonical board and the best score among the legal children, or the score
\* of the pass child when the mover has no legal cell.
EvalIsMinimax ==
    (HasReturned /\ ~iscomplete(ReturnedB, ReturnedM)) =>
        /\ getboard(ret) = canonicalize(ReturnedB)
        /\ getscore(ret) =
              IF Legal(ReturnedM) = {} THEN StoredScore(pass(ReturnedB))
              ELSE BestChild(ReturnedB, ReturnedM)

\* C1 witness: eval has returned for a position with several legal children
\* of different scores.
EvalFolded ==
    /\ HasReturned
    /\ ~iscomplete(ReturnedB, ReturnedM)
    /\ Cardinality(Legal(ReturnedM)) >= 2
    /\ Cardinality(ChildScores(ReturnedB, ReturnedM)) >= 2

\* The legal cells of main's position whose child has the best score.
BestMoves ==
    Asc({i \in Legal(m) : StoredScore(place(b, i)) = BestChild(b, m)})

\* C5: suggest returns n and fills moves[0..n) with the legal cells of best
\* child score, each once, in ascending order; n is 0 exactly when the mover
\* has no legal cell.
SuggestIsBest ==
    (pc = "done" /\ ~iscomplete(b, m)) =>
        /\ n = Len(BestMoves)
        /\ \A k \in 1..n : moves[k - 1] = BestMoves[k]
        /\ (n = 0) <=> (Legal(m) = {})

\* C5 witness: suggest returned several tied cells and left others out.
SuggestChose ==
    /\ pc = "done"
    /\ ~iscomplete(b, m)
    /\ n >= 2
    /\ n < Cardinality(Legal(m))

\* The slots whose evaluation is in progress: each belongs to a call on the
\* stack that has written its placeholder.
Owned ==
    {stack[j].slot :
        j \in {k \in 1..Len(stack) : stack[k].fn = "eval" /\ stack[k].pc # "call"}}

OwnedOnce ==
    \A j, k \in 1..Len(stack) :
        (/\ j < k
         /\ stack[j].fn = "eval" /\ stack[j].pc # "call"
         /\ stack[k].fn = "eval" /\ stack[k].pc # "call")
        => stack[j].slot # stack[k].slot

\* What one step may do to slot k.
SlotStep(k) ==
    \* an occupied slot stays occupied and keeps its key
    /\ table[k] # {} =>
          (table'[k] # {} /\ getboard(table'[k]) = getboard(table[k]))
    \* the first write is the placeholder of a call that now owns the slot
    /\ (table[k] = {} /\ table'[k] # {}) =>
          (table'[k] = init(getboard(table'[k])) /\ k \in Owned')
    \* a second write is made by the owner as it returns
    /\ (table[k] # {} /\ table'[k] # table[k]) => (k \in Owned /\ k \notin Owned')
    \* a slot nobody owns is final
    /\ (table[k] # {} /\ k \notin Owned) => (table'[k] = table[k] /\ k \notin Owned')

\* C6: a slot is written at most twice, with the placeholder and then with
\* its final value; a final slot never changes and no slot is emptied.
WrittenAtMostTwice ==
    /\ [][\A k \in DOMAIN table : SlotStep(k)]_vars
    /\ []OwnedOnce

\* C6 witness: a final slot holds a value other than its placeholder.
SlotFinalized ==
    \E k \in DOMAIN table :
        /\ table[k] # {}
        /\ k \notin Owned
        /\ table[k] # init(getboard(table[k]))

Occupied == {k \in DOMAIN table : table[k] # {}}

\* C7: the capacity check comes with the insertion, before the placeholder
\* is written and before any child is called; short of an abort the table
\* has an empty slot and the probe of the running call ends.
OverflowIsFatal ==
    /\ pc # "abort" =>
          (table_len < TableSize /\ Cardinality(Occupied) = table_len)
    /\ pc = "abort" =>
          /\ table_len = TableSize
          /\ Cardinality(Occupied) = TableSize - 1
          /\ Top.fn = "eval" /\ Top.pc = "call"
          /\ table[lookup(table, canonicalize(Top.b))] = {}
    /\ Occupied # DOMAIN table
    /\ (stack # << >> /\ Top.fn = "eval" /\ Top.pc = "call") =>
          lookup(table, canonicalize(Top.b)) # NoSlot

\* C7 witness: a solve has aborted on the capacity check.
Aborted == pc = "abort"

\* Each call on the stack is on a position one ply after its caller's.
CallsDeepen ==
    Len(stack) >= 2 =>
        /\ turn(Top.b) = turn(stack[Len(stack) - 1].b) + 1
        /\ turn(Top.m) = turn(Top.b)

\* C8: every call of eval is one ply deeper than its caller, and a call of
\* eval or suggest by main comes to an end: it returns, or the solve aborts
\* on the capacity check.
EvalTerminates ==
    /\ []CallsDeepen
    /\ (pc = "eval") ~> (pc \in {"display", "abort"})
    /\ (pc = "suggest") ~> (pc \in {"done", "abort"})

\* C8 witness: main's call of eval has returned after recursing.
SolveReturned == pc = "display" /\ table_len >= 8

\* combine and init of the build pc names.
CombineOf(x, y) == IF pc = "minimax" THEN combine(x, y) ELSE combine_tally(x, y)
InitOf(bb) == IF pc = "minimax" THEN init(bb) ELSE init_tally(bb)

\* C11: on slots carrying the same board combine is commutative and
\* associative and init(board) is its left identity, in both builds; so the
\* accumulator, once every slot is folded in whatever order, is the fold in
\* the order drawn.
CombineAlgebra ==
    /\ \A x, y \in {moves[k] : k \in 1..3} : CombineOf(x, y) = CombineOf(y, x)
    /\ CombineOf(CombineOf(moves[1], moves[2]), moves[3]) =
          CombineOf(moves[1], CombineOf(moves[2], moves[3]))
    /\ \A x \in {moves[k] : k \in 1..3} : CombineOf(InitOf(b), x) = x
    /\ stack = << >> =>
          ret = CombineOf(CombineOf(CombineOf(InitOf(b), moves[1]), moves[2]),
                          moves[3])

\* C11 witness: three different minimax slots have been folded and the
\* result is not the slot drawn last.
FoldedThree ==
    /\ pc = "minimax"
    /\ stack = << >>
    /\ Cardinality({moves[k] : k \in 1..3}) = 3
    /\ ret # moves[3]

\* The cells the mask forbids to the player the board says is to move.
Forbidden(bb, mm) == And(Shr(mm, Who(bb) * 25), PLANE)

\* C12: on the first ply, where the mask is INIT, every cell but the centre
\* (12) is valid; on every later ply a cell is valid exactly when the mover's
\* bit for it in the mask is clear.
ValidOpeningRule ==
    \A p \in Positions :
        /\ Turn1(p[1]) = 1 =>
              (p[2] = INIT /\ Legal(p[2]) = Cell \ {12})
        /\ Turn1(p[1]) # 1 =>
              {i \in Cell : valid(p[2], i)} = Cell \ Forbidden(p[1], p[2])

\* C12 witness: a later ply on which the centre and other cells are valid
\* and some cell is not.
ValidMixed ==
    /\ pc = "input"
    /\ Turn1(b) > 1
    /\ valid(m, 12)
    /\ Cardinality(Legal(m)) >= 2
    /\ Legal(m) # Cell

\* C13: place, pass and mask each advance the turn number of their argument
\* by exactly one, and pass leaves the fifty occupancy bits as they are.
TurnAdvances ==
    /\ \A i \in Cell :
        /\ turn(place(b, i)) = turn(b) + 1
        /\ turn(mask(m, i)) = turn(m) + 1
    /\ turn(pass(b)) = turn(b) + 1
    /\ turn(pass(m)) = turn(m) + 1
    /\ And(pass(b), PLANES) = And(b, PLANES)
    /\ And(pass(m), PLANES) = And(m, PLANES)

\* C13 witness: a game in which both a pass and placements by both players
\* have advanced the turn number.
TurnAdvanced ==
    /\ pc = "input"
    /\ Passes(b) >= 1
    /\ And(b, PLANE) # {}
    /\ And(Shr(b, 25), PLANE) # {}
    /\ turn(b) = turn(m)

\* The slot the call on top of the stack is about to find, when that slot is
\* occupied: the call will return it as it stands.
HitSlots ==
    IF stack # << >> /\ Top.fn = "eval" /\ Top.pc = "call"
    THEN {k \in {lookup(table, canonicalize(Top.b))} :
            k # NoSlot /\ table[k] # {}}
    ELSE {}

\* C14: an entry eval finds in the table is final: it is not the placeholder
\* of a call still on the stack, and no such call has the same key.
HitIsFinal ==
    \A k \in HitSlots :
        /\ k \notin Owned
        /\ \A j \in 1..(Len(stack) - 1) :
              stack[j].fn = "eval" => stack[j].b0 # getboard(table[k])

\* C14 witness: a call three deep in a solve is about to return an entry an
\* earlier call stored with a score other than the placeholder's.
HitPending ==
    /\ pc = "eval"
    /\ Len(stack) >= 3
    /\ \E k \in HitSlots : table[k] # init(getboard(table[k]))

\* The minimax value of a position by plain recursion over the game tree,
\* with no table and no canonicalization: the piece difference of a complete
\* position, the value of the pass child when the mover has no legal cell,
\* otherwise the best child value for the mover.
RECURSIVE Reference(_, _)
Reference(bb, mm) ==
    IF iscomplete(bb, mm)
    THEN POPCOUNT(And(bb, PLANE)) - POPCOUNT(And(Shr(bb, 25), PLANE))
    ELSE IF Legal(mm) = {}
    THEN Reference(pass(bb), pass(mm))
    ELSE LET S == {Reference(place(bb, i), mask(mm, i)) : i \in Legal(mm)}
         IN IF Who(bb) = 0 THEN Max(S) ELSE Min(S)

\* C15: the score eval returns for a position, whether computed by the call
\* or taken from the entry of a symmetric or transposed position, is the
\* minimax value of the position itself.
MemoIsSound ==
    /\ HasReturned => getscore(ret) = Reference(ReturnedB, ReturnedM)
    /\ \A k \in HitSlots : getscore(table[k]) = Reference(Top.b, Top.m)

\* C15 witness: eval is about to return, for a position that is not complete
\* and not its own canonical form, the entry stored for its canonical form.
MemoShared ==
    /\ HitSlots # {}
    /\ canonicalize(Top.b) # Top.b
    /\ ~iscomplete(Top.b, Top.m)
    /\ Cardinality(Legal(Top.m)) >= 2

\* Cells of the 5x5 grid that share an edge; cell i is in row i \div 5 and
\* column i % 5.
Adjacent(i, j) ==
    \/ (i \div 5 = j \div 5 /\ (i % 5 = (j % 5) + 1 \/ j % 5 = (i % 5) + 1))
    \/ (i % 5 = j % 5 /\ (i \div 5 = (j \div 5) + 1 \/ j \div 5 = (i \div 5) + 1))

\* The cells of one player's pieces.
Pieces(bb, who) == And(Shr(bb, who * 25), PLANE)

\* C16: in every position of the game or the search no cell holds pieces of
\* both players and no two pieces of different players share an edge; the
\* pattern mask blocks for a cell is the cell and its edge neighbours.
NoOpposingNeighbours ==
    /\ \A i \in Cell : blocks[i + 1] = {i} \cup {j \in Cell : Adjacent(i, j)}
    /\ \A p \in Positions :
         /\ Pieces(p[1], 0) \cap Pieces(p[1], 1) = {}
         /\ \A i \in Pieces(p[1], 0) :
               \A j \in Pieces(p[1], 1) : ~Adjacent(i, j)

\* C16 witness: a position of the search in which each player has at least
\* three pieces.
BothPlaced ==
    /\ stack # << >>
    /\ Cardinality(Pieces(Top.b, 0)) >= 3
    /\ Cardinality(Pieces(Top.b, 1)) >= 3

\* The calls of eval on the stack that have reached place p.
EvalAt(p) == {j \in 1..Len(stack) : stack[j].fn = "eval" /\ stack[j].pc = p}

\* C17: in every position of the game or the search nomoves holds exactly
\* when no cell is valid; a running call of eval in its loop over the cells
\* has a valid cell, and one that passed has none.
NomovesIsNoValid ==
    /\ \A p \in Positions : nomoves(p[1], p[2]) <=> Legal(p[2]) = {}
    /\ (stack # << >> /\ Top.fn = "eval") =>
          /\ Top.pc \in {"loop", "callret"} => ~nomoves(Top.b, Top.m)
          /\ Top.pc = "passret" => nomoves(Top.b, Top.m)

\* C17 witness: a call of eval that passed was made from the loop of a call
\* with several valid cells.
PassedUnderLoop ==
    /\ EvalAt("passret") # {}
    /\ \E j \in EvalAt("callret") : Cardinality(Legal(stack[j].m)) >= 2

\* Every board and mask held by main or by a call on the stack.
Held ==
    {b, m} \cup {stack[j].b : j \in 1..Len(stack)}
           \cup {stack[j].m : j \in 1..Len(stack)}

\* C18: the turn number of every board and mask of a solve fits its six
\* bits, so that nothing reaches bit 56 and the score bits of a slot; eval
\* never passes twice in a row: the call a pass makes is on a position whose
\* mover has a cell, and passes never outnumber the pieces by more than one.
TurnFitsField ==
    /\ \A w \in Held :
          /\ Turn1(w) <= 63
          /\ w \subseteq 0..55
          /\ Passes(w) <= POPCOUNT(And(w, PLANES)) + 1
    /\ \A k \in DOMAIN table : table[k] \subseteq 0..61
    /\ \A j \in EvalAt("passret") :
          j < Len(stack) =>
              /\ ~nomoves(stack[j + 1].b, stack[j + 1].m)
              /\ ~iscomplete(stack[j + 1].b, stack[j + 1].m)
              /\ stack[j + 1].pc # "passret"

\* C18 witness: the call a pass made is in its loop over the cells, in a
\* line of play with at least two passes before it.
PassThenMove ==
    \E j \in EvalAt("passret") :
        /\ j < Len(stack)
        /\ stack[j + 1].pc \in {"loop", "callret"}
        /\ Passes(stack[j].b) >= 2

\* main, lines 583-596: the entries the scan of the table classifies as
\* endings, by the mask it derives from the stored board.
IsEnding(k) == \E c \in {getboard(table[k])} : iscomplete(c, derive(c))
Endings == {k \in Occupied : IsEnding(k)}

\* The three totals the scan prints.
p1_wins == Cardinality({k \in Endings : getscore(table[k]) > 0})
p2_wins == Cardinality({k \in Endings : getscore(table[k]) < 0})
ties == Cardinality({k \in Endings : getscore(table[k]) = 0})

\* The pieces of the first player minus the pieces of the second.
PieceDifference(bb) == CHOOSE d \in {getscore(score(bb))} : TRUE

\* C19: an entry is an ending for the scan exactly when eval gives it its
\* final value on the branch for complete positions: a call that takes that
\* branch is on an entry the scan takes for an ending and stores the piece
\* difference, a call that takes another branch is on an entry the scan
\* does not take for an ending, and after the solve the score of every
\* ending is its piece difference.
ScanCountsTerminals ==
    /\ [][/\ EvalScore =>
               /\ IsEnding(Top.slot)
               /\ getscore(table'[Top.slot]) = PieceDifference(Top.b0)
          /\ (EvalPass \/ EvalLoop) => ~IsEnding(Top.slot)]_vars
    /\ [](pc = "display" =>
            \A k \in Endings :
                getscore(table[k]) = PieceDifference(getboard(table[k])))

\* C19 witness: a finished solve has left endings of all three outcomes and
\* entries that are not endings.
ScanMixed ==
    /\ pc = "display"
    /\ p1_wins >= 1 /\ p2_wins >= 1 /\ ties >= 1
    /\ Endings # Occupied

\* The keys stored in the table, and the slot the probe of a key starts at.
Keys == {getboard(table[k]) : k \in Occupied}
Home(bb) == Mod64(Hash(bb), TableSize)

\* C20: the table is a map from canonical boards to slots: no key is in two
\* slots; a call whose key is in the table finds the slot that holds it and
\* not an empty one; a call that has inserted its key finds it again in its
\* slot; when main has the table back every key is a canonical board and
\* lookup returns its slot; and table_len is the number of keys, one more
\* when the capacity check has stopped the insertion of a further key.
TableIsMap ==
    /\ \A j, k \in Occupied :
          getboard(table[j]) = getboard(table[k]) => j = k
    /\ (stack # << >> /\ Top.fn = "eval" /\ Top.pc = "call") =>
          \E c \in {canonicalize(Top.b)} :
              c \in Keys =>
                  (HitSlots # {} /\ \A k \in HitSlots : getboard(table[k]) = c)
    /\ (stack # << >> /\ Top.fn = "eval" /\ Top.pc = "body") =>
          /\ canonicalize(Top.b0) = Top.b0
          /\ getboard(table[Top.slot]) = Top.b0
          /\ lookup(table, Top.b0) = Top.slot
    /\ pc \in {"display", "done", "abort"} =>
          \A k \in Occupied :
              \E c \in {getboard(table[k])} :
                  /\ canonicalize(c) = c
                  /\ lookup(table, c) = k
    /\ table_len = Cardinality(Keys) + (IF pc = "abort" THEN 1 ELSE 0)

\* C20 witness: a key sits in a slot other than the one its probe starts at,
\* and a call is about to find the entry of its key.
Displaced ==
    /\ HitSlots # {}
    /\ table_len >= 8
    /\ \E k \in Occupied : Home(getboard(table[k])) # k

====
